---- MODULE Spec2Model ----
(***************************************************************************)
(* Project-Nova front end: the call-graph viewer (Lineage, Filter, Search), *)
(* the single-file analysis flow of the CFG tab, and the AWS job tracking   *)
(* of the main page.                                                        *)
(***************************************************************************)
EXTENDS Integers, Sequences, FiniteSets, TLC

VARIABLES
    \* getConnectedNodes, one while-iteration per step
    bfsEdges, bfsStart, connected, queue, visited, pushed, iterations, bfsPc,
    \* the graph viewer: its cfg prop, which component it is, its React state
    \* and the data handed to vis-network
    cfg, viewer, mounted, filterMode, searchTerm, selectedNodeId,
    error, stats, network,
    \* the CFG tab that hosts the viewer: where the graph comes from, and the
    \* state of its single-file analysis (loading, error, last response data)
    origin, tabLoading, tabError, tabData,
    \* the main page: its React state
    uploadType, file, repoUrl, loading, results, pageError,
    awsJobId, awsJobStatus, showStatusBox, isStatusBoxMinimized,
    \* the browser's localStorage
    localStorage,
    \* the backend's jobs and the responses on their way to the page
    submissions, serverStatus, preprocessReq, submitReqs, statusResps,
    resultResps

None == "none"

\* a state or ref that holds no record yet
NoStats == [unset |-> TRUE]
NoNetwork == [destroyed |-> TRUE]
NoGraph == [absent |-> TRUE]

bfsVars ==
    <<bfsEdges, bfsStart, connected, queue, visited, pushed, iterations, bfsPc>>
tabVars == <<origin, tabLoading, tabError, tabData>>
viewVars ==
    <<cfg, viewer, mounted, filterMode, searchTerm, selectedNodeId,
      error, stats, network, tabVars>>
localVars == <<uploadType, file, repoUrl, loading, results, pageError>>
jobVars == <<awsJobId, awsJobStatus, showStatusBox, isStatusBoxMinimized>>
netVars ==
    <<submissions, serverStatus, preprocessReq, submitReqs, statusResps,
      resultResps>>
appVars == <<localVars, jobVars, localStorage, netVars>>
vars == <<bfsVars, viewVars, appVars>>

-----------------------------------------------------------------------------
(* Graph inputs *)

\* longest edge list drawn for a graph
MaxEdges == 3

\* node ids of the graphs; "gone" never names a node, only an edge endpoint
NodeIds == {"main", "run", "ext"}
EdgeIds == NodeIds \cup {"gone"}

EdgeRecs(ids) == [from : ids, to : ids]

EdgeLists(ids, n) == UNION {[1..k -> EdgeRecs(ids)] : k \in 0..n}

-----------------------------------------------------------------------------
(* Lineage: getConnectedNodes *)

\* values of the variables of a component that is not part of a run
ViewerIdle ==
    /\ cfg = NoGraph
    /\ viewer = None
    /\ mounted = FALSE
    /\ filterMode = "all"
    /\ searchTerm = <<>>
    /\ selectedNodeId = None
    /\ error = None
    /\ stats = NoStats
    /\ network = NoNetwork
    /\ origin = None
    /\ tabLoading = FALSE
    /\ tabError = None
    /\ tabData = NoGraph

NoJobStatus == [null |-> TRUE]

\* most GitHub submissions of a run
MaxJobs == 2

\* the job id the backend gives to the k-th submission
JobNames == <<"job-a", "job-b", "job-c">>

JobIds == {JobNames[k] : k \in 1..MaxJobs}

\* the page as constructed, before any localStorage entry exists
AppFresh ==
    /\ uploadType = "zip"
    /\ file = FALSE
    /\ repoUrl = ""
    /\ loading = FALSE
    /\ results = None
    /\ pageError = None
    /\ awsJobId = None
    /\ awsJobStatus = NoJobStatus
    /\ showStatusBox = FALSE
    /\ isStatusBoxMinimized = FALSE
    /\ submissions = 0
    /\ serverStatus = [j \in JobIds |-> None]
    /\ preprocessReq = None
    /\ submitReqs = {}
    /\ statusResps = {}
    /\ resultResps = {}

\* localStorage: a function from the keys present to what they hold
EmptyStorage == <<>>

AppIdle ==
    /\ AppFresh
    /\ localStorage = EmptyStorage

LineageIdle ==
    /\ bfsEdges = <<>>
    /\ bfsStart = None
    /\ connected = {}
    /\ queue = <<>>
    /\ visited = {}
    /\ pushed = <<>>
    /\ iterations = 0
    /\ bfsPc = "idle"

\* the ids one edge contributes while `current` is expanded (the forEach body)
CallerOfBothWays(edge, current, seen) ==
    (IF edge.to = current /\ edge.from \notin seen THEN {edge.from} ELSE {})
      \cup (IF edge.from = current /\ edge.to \notin seen THEN {edge.to} ELSE {})

CallerOfUnchecked(edge, current, seen) ==
    IF edge.to = current THEN {edge.from} ELSE {}

CallerOf(edge, current, seen) ==
    IF edge.to = current /\ edge.from \notin seen THEN {edge.from} ELSE {}

RECURSIVE PushAll(_, _)
PushAll(q, ids) ==
    IF ids = {} THEN q
    ELSE LET id == CHOOSE x \in ids : TRUE IN PushAll(Append(q, id), ids \ {id})

\* connected.add(edge.from); queue.push(edge.from) for the ids in add
AddAll(st, add) ==
    [connected |-> st.connected \cup add, queue |-> PushAll(st.queue, add)]

\* edges.forEach(...) from index i on; st = [connected, queue]
RECURSIVE ForEachEdge(_, _, _, _)
ForEachEdge(edges, i, current, st) ==
    IF i > Len(edges) THEN st
    ELSE ForEachEdge(edges, i + 1, current,
             AddAll(st, CallerOf(edges[i], current, st.connected)))

\* the state after the forEach of one iteration, r = [connected, queue]
Expanded(st, current, r) ==
    [connected |-> r.connected,
     queue     |-> r.queue,
     visited   |-> st.visited \cup {current}]

\* one iteration of while (queue.length > 0); st = [connected, queue, visited]
WhileStep(st, edges) ==
    LET current == Head(st.queue)
        rest    == Tail(st.queue)
    IN  IF current \in st.visited
        THEN [st EXCEPT !.queue = rest]
        ELSE Expanded(st, current,
                 ForEachEdge(edges, 1, current,
                     [connected |-> st.connected, queue |-> rest]))

RECURSIVE RunWhile(_, _)
RunWhile(st, edges) ==
    IF st.queue = <<>> THEN st ELSE RunWhile(WhileStep(st, edges), edges)

getConnectedNodes(nodeId, edges) ==
    RunWhile([connected |-> {nodeId}, queue |-> <<nodeId>>, visited |-> {}],
             edges).connected

\* how often id occurs in q from position i on
RECURSIVE CountFrom(_, _, _)
CountFrom(q, i, id) ==
    IF i > Len(q) THEN 0
    ELSE (IF q[i] = id THEN 1 ELSE 0) + CountFrom(q, i + 1, id)

\* getConnectedNodes(nodeId, edges) has been entered (lines 22-24):
\* connected = {nodeId}, queue = [nodeId], visited = {}
InitLineage ==
    /\ bfsEdges \in EdgeLists(EdgeIds, MaxEdges)
    /\ bfsStart \in EdgeIds
    /\ connected = {bfsStart}
    /\ queue = <<bfsStart>>
    /\ visited = {}
    /\ pushed = [id \in EdgeIds |-> IF id = bfsStart THEN 1 ELSE 0]
    /\ iterations = 0
    /\ bfsPc = "while"
    /\ ViewerIdle
    /\ AppIdle

Iterate ==
    /\ bfsPc = "while"
    /\ queue # <<>>
    /\ LET st == WhileStep([connected |-> connected, queue |-> queue,
                            visited |-> visited], bfsEdges)
       IN  /\ connected' = st.connected
           /\ queue' = st.queue
           /\ visited' = st.visited
           /\ pushed' = [id \in EdgeIds |->
                           pushed[id] + CountFrom(st.queue, Len(queue), id)]
    /\ iterations' = iterations + 1
    /\ UNCHANGED <<bfsEdges, bfsStart, bfsPc, viewVars, appVars>>

Return ==
    /\ bfsPc = "while"
    /\ queue = <<>>
    /\ bfsPc' = "done"
    /\ UNCHANGED <<bfsEdges, bfsStart, connected, queue, visited, pushed,
                   iterations, viewVars, appVars>>

NextLineage == Iterate \/ Return

SpecLineage == InitLineage /\ [][NextLineage]_vars

-----------------------------------------------------------------------------
(* Claims about Lineage *)

IsEdge(edges, a, b) ==
    \E i \in 1..Len(edges) : edges[i].from = a /\ edges[i].to = b

\* n reaches target by one or more edges in the from->to direction, the
\* first edge followed by at most k more
RECURSIVE ReachesWithin(_, _, _, _)
ReachesWithin(edges, n, target, k) ==
    \/ IsEdge(edges, n, target)
    \/ /\ k > 0
       /\ \E m \in EdgeIds :
             IsEdge(edges, n, m) /\ ReachesWithin(edges, m, target, k - 1)

ReachesByCalls(edges, n, target) ==
    ReachesWithin(edges, n, target, Cardinality(EdgeIds))

TransitiveCallers(edges, target) ==
    {n \in EdgeIds : ReachesByCalls(edges, n, target)}

\* C1: when getConnectedNodes returns, its result is exactly the start node
\* plus every id from which the start node is reachable over one or more
\* edges from->to; an id that is only a callee of the start is not in it.
C1_LineageIsCallers ==
    bfsPc = "done" =>
        connected = {bfsStart} \cup TransitiveCallers(bfsEdges, bfsStart)

\* a finished traversal holding an indirect caller while a callee is left out
C1_Witness ==
    /\ bfsPc = "done"
    /\ \E n \in connected :
          n # bfsStart /\ ~IsEdge(bfsEdges, n, bfsStart)
    /\ \E m \in EdgeIds : IsEdge(bfsEdges, bfsStart, m) /\ m \notin connected

\* C8: the traversal ends on every graph (cycles, self-loops, duplicate
\* edges, endpoints that are no nodes): it pushes each id onto the queue at
\* most once, so the while loop runs at most once per id before the queue
\* is empty and the function returns.
C8_LineageTerminates ==
    /\ \A id \in EdgeIds : pushed[id] <= 1
    /\ iterations <= Cardinality(EdgeIds)
    /\ iterations + Len(queue) <= Cardinality(EdgeIds)

\* a finished traversal of a graph with a cycle through the start node,
\* over an edge list with a duplicate edge from an id that is no node
C8_Witness ==
    /\ bfsPc = "done"
    /\ ReachesByCalls(bfsEdges, bfsStart, bfsStart)
    /\ \E i, j \in 1..Len(bfsEdges) : i # j /\ bfsEdges[i] = bfsEdges[j]
    /\ bfsStart # "gone"
    /\ "gone" \in connected

-----------------------------------------------------------------------------
(* Graphs given to a viewer *)

\* most edges of a graph given to a viewer
MaxViewEdges == 2

\* cfg.nodes is an array: the present nodes in this order
IdOrder == <<"main", "run", "ext">>

Rank(id) == CHOOSE i \in 1..Len(IdOrder) : IdOrder[i] = id

\* label and file of each node; an unresolved call target has no file
LabelOf(id) ==
    CASE id = "main" -> <<"M", "a", "i", "n">>
      [] id = "run"  -> <<"r", "u", "n">>
      [] OTHER       -> <<"E", "x", "t">>

FileOf(id) ==
    CASE id = "main" -> <<"a", "p", "p">>
      [] id = "run"  -> <<"L", "i", "b">>
      [] OTHER       -> None

\* what the user may type into the search box
SearchTerms == {<<>>, <<"L">>, <<"n">>}

FilterModes == {"all", "connected", "public"}

\* the flags a node of each id may carry: only "run" may be private, only
\* "ext" may be an unresolved call target
NodeRecs(id) ==
    [id : {id}, connected : BOOLEAN,
     is_private : IF id = "run" THEN BOOLEAN ELSE {FALSE},
     external : IF id = "ext" THEN BOOLEAN ELSE {FALSE}]

RECURSIVE NodeLists(_)
\* every array of nodes over the ids IdOrder[i..], each id at most once
NodeLists(i) ==
    IF i > Len(IdOrder) THEN {<<>>}
    ELSE LET rest == NodeLists(i + 1)
         IN  rest \cup {<<n>> \o r : n \in NodeRecs(IdOrder[i]), r \in rest}

EdgeKey(e) == Rank(e.from) * (Len(IdOrder) + 1) + Rank(e.to)

\* edge arrays up to reordering (duplicates stay, permutations are dropped)
\* and without self-loops
ViewEdgeLists ==
    {l \in EdgeLists(NodeIds, MaxViewEdges) :
        /\ \A i \in 1..Len(l) : l[i].from # l[i].to
        /\ \A i \in 1..(Len(l) - 1) : EdgeKey(l[i]) <= EdgeKey(l[i + 1])}

CountNodes(nodes, Test(_)) == Len(SelectSeq(nodes, Test))

\* the stats the backend attaches to a graph
AssembleStats(nodes) ==
    LET ext  == CountNodes(nodes, LAMBDA n : n.external)
        conn == CountNodes(nodes, LAMBDA n : ~n.external /\ n.connected)
    IN  [total_functions      |-> Len(nodes) - ext,
         connected_functions  |-> conn,
         isolated_functions   |-> Len(nodes) - ext - conn,
         external_references  |-> ext]

Graph(ns, es, er) ==
    [nodes |-> ns, edges |-> es, errors |-> er, stats |-> AssembleStats(ns)]

\* a graph without nodes may carry an error message
Graphs ==
    {Graph(ns, es, <<>>) : ns \in NodeLists(1), es \in ViewEdgeLists}
      \cup {Graph(<<>>, es, <<"parse error">>) : es \in ViewEdgeLists}

-----------------------------------------------------------------------------
(* The viewers' effect *)

\* String.prototype.toLowerCase on the letters that occur
LowerChar(c) ==
    CASE c = "M" -> "m"
      [] c = "A" -> "a"
      [] c = "L" -> "l"
      [] c = "E" -> "e"
      [] OTHER   -> c

toLowerCase(str) == [i \in 1..Len(str) |-> LowerChar(str[i])]

\* String.prototype.includes
includes(str, term) ==
    \E k \in 0..(Len(str) - Len(term)) :
        \A i \in 1..Len(term) : str[k + i] = term[i]

FieldIncludes(field, term) ==
    field # None /\ includes(toLowerCase(field), term)

MatchesTerm(n, term) ==
    FieldIncludes(LabelOf(n.id), term) \/ FieldIncludes(FileOf(n.id), term)

IdsOf(nodes) == {nodes[i].id : i \in 1..Len(nodes)}

FilterByModeSwapped(nodes, mode) ==
    IF mode = "connected" THEN SelectSeq(nodes, LAMBDA n : ~n.is_private)
    ELSE IF mode = "public" THEN SelectSeq(nodes, LAMBDA n : n.connected)
    ELSE nodes

\* filter nodes based on filter mode
FilterByMode(nodes, mode) ==
    IF mode = "connected" THEN SelectSeq(nodes, LAMBDA n : n.connected)
    ELSE IF mode = "public" THEN SelectSeq(nodes, LAMBDA n : ~n.is_private)
    ELSE nodes

SearchMatchesOnly(g, filteredNodes, term0) ==
    LET term == toLowerCase(term0)
    IN  SelectSeq(filteredNodes, LAMBDA n : MatchesTerm(n, term))

\* filteredNodes.filter(n => connectedNodeIds.has(n.id))
KeepIds(filteredNodes, connectedNodeIds) ==
    SelectSeq(filteredNodes, LAMBDA n : n.id \in connectedNodeIds)

\* the search filter of the stand-alone viewer: the filtered nodes that lie
\* in the lineage of some matching node of the whole graph
SearchWithLineage(g, filteredNodes, term0) ==
    LET term          == toLowerCase(term0)
        matchingNodes == SelectSeq(g.nodes, LAMBDA n : MatchesTerm(n, term))
    IN  KeepIds(filteredNodes,
            UNION {getConnectedNodes(id, g.edges) : id \in IdsOf(matchingNodes)})

\* the search filter of the viewer inlined in the CFG tab: matches only
SearchInline(g, filteredNodes, term0) ==
    LET term == toLowerCase(term0)
    IN  SelectSeq(filteredNodes, LAMBDA n : MatchesTerm(n, term))

\* the nodes a viewer displays
FilteredNodes(g, which, mode, term) ==
    IF which = "basic" THEN g.nodes
    ELSE IF term = <<>> THEN FilterByMode(g.nodes, mode)
    ELSE IF which = "standalone"
    THEN SearchWithLineage(g, FilterByMode(g.nodes, mode), term)
    ELSE SearchInline(g, FilterByMode(g.nodes, mode), term)

StyleAllCallersOnly(filteredNodes, selected, connectedToSelected) ==
    [i \in 1..Len(filteredNodes) |->
        [id            |-> filteredNodes[i].id,
         isDimmed      |-> FALSE,
         isHighlighted |-> selected /\ filteredNodes[i].id \in connectedToSelected]]

\* filteredNodes.map(...): the vis-network node of each filtered node
StyleAll(filteredNodes, selected, connectedToSelected) ==
    [i \in 1..Len(filteredNodes) |->
        [id            |-> filteredNodes[i].id,
         isDimmed      |-> selected /\ filteredNodes[i].id \notin connectedToSelected,
         isHighlighted |-> selected /\ filteredNodes[i].id \in connectedToSelected]]

\* the vis-network nodes of the filtered nodes; only the stand-alone viewer
\* knows a selection
StyledNodes(g, which, filteredNodes, sel) ==
    IF which = "standalone" /\ sel # None
    THEN StyleAll(filteredNodes, TRUE, getConnectedNodes(sel, g.edges))
    ELSE StyleAll(filteredNodes, FALSE, {})

ValidEdgesFromOnly(edges, nodeIds) ==
    SelectSeq(edges, LAMBDA e : e.from \in nodeIds)

\* filter edges to only include nodes we're displaying
ValidEdges(edges, nodeIds) ==
    SelectSeq(edges, LAMBDA e : e.from \in nodeIds /\ e.to \in nodeIds)

\* setStats({displayedNodes, displayedEdges, totalNodes, totalEdges, ...cfg.stats})
ViewStats(g, nodes, validEdges) ==
    [displayedNodes |-> Len(nodes),
     displayedEdges |-> Len(validEdges),
     totalNodes     |-> Len(g.nodes),
     totalEdges     |-> Len(g.edges)] @@ g.stats

\* cfg?.errors?.[0] || 'No graph data available'
NoDataMessage(g) ==
    IF g.errors # <<>> THEN g.errors[1] ELSE "No graph data available"

\* the end of the effect: create the network, or report that nothing matches
Draw(nodes, validEdges, container) ==
    IF container /\ (viewer = "basic" \/ Len(nodes) > 0)
    THEN /\ network' = [nodes |-> nodes, edges |-> validEdges]
         /\ stats' = ViewStats(cfg, nodes, validEdges)
         /\ error' = None
    ELSE IF viewer # "basic" /\ Len(nodes) = 0
    THEN /\ error' = "No functions match the current filters"
         /\ network' = NoNetwork
         /\ stats' = stats
    ELSE /\ network' = NoNetwork
         /\ UNCHANGED <<error, stats>>

DrawNodes(nodes, container) ==
    Draw(nodes, ValidEdges(cfg.edges, IdsOf(nodes)), container)

\* The body of the effect, run after a render in which the state was
\* (mode, term, sel).  The clean-up of the previous run has destroyed the
\* previous network.  The container exists iff that render showed no error.
RunEffect(mode, term, sel) ==
    IF Len(cfg.nodes) = 0
    THEN /\ error' = NoDataMessage(cfg)
         /\ network' = NoNetwork
         /\ stats' = stats
    ELSE DrawNodes(StyledNodes(cfg, viewer,
                       FilteredNodes(cfg, viewer, mode, term), sel),
                   error = None)

-----------------------------------------------------------------------------
(* The viewer as a state machine *)

Viewers == {"standalone", "inline", "basic"}

\* useState defaults of a viewer that has not run its effect yet
FreshViewer ==
    /\ mounted = FALSE
    /\ filterMode = "all"
    /\ searchTerm = <<>>
    /\ selectedNodeId = None
    /\ error = None
    /\ stats = NoStats
    /\ network = NoNetwork

\* Either a viewer has been constructed on the project graph and nothing is
\* drawn yet, or the tab waits for code to analyse and shows no viewer.
InitViewer ==
    /\ \/ /\ origin = "project"
          /\ cfg \in Graphs
          /\ viewer \in Viewers
       \/ /\ origin = "custom"
          /\ cfg = NoGraph
          /\ viewer = "basic"
    /\ FreshViewer
    /\ tabLoading = FALSE
    /\ tabError = None
    /\ tabData = NoGraph
    /\ LineageIdle
    /\ AppIdle

\* handleAnalyze up to its fetch; the button is enabled only while nothing
\* loads and the code is not blank, so the blank-code return is not taken.
\* setCfg(null) unmounts the viewer of the previous result.
HandleAnalyze ==
    /\ origin = "custom"
    /\ ~tabLoading
    /\ tabLoading' = TRUE
    /\ tabError' = None
    /\ cfg' = NoGraph
    /\ mounted' = FALSE
    /\ filterMode' = "all"
    /\ searchTerm' = <<>>
    /\ selectedNodeId' = None
    /\ error' = None
    /\ stats' = NoStats
    /\ network' = NoNetwork
    /\ tabData' = NoGraph
    /\ UNCHANGED <<origin, viewer, bfsVars, appVars>>

\* the response is not ok: the catch sets the error
AnalyzeFailed ==
    /\ origin = "custom"
    /\ tabLoading
    /\ tabError' = "Failed to generate CFG"
    /\ tabLoading' = FALSE
    /\ UNCHANGED <<origin, tabData, cfg, viewer, mounted, filterMode,
                   searchTerm, selectedNodeId, error, stats, network, bfsVars, appVars>>

\* data.errors?.[0] || 'No functions found in the code'
NoFunctionsMessage(data) ==
    IF data.errors # <<>> THEN data.errors[1]
    ELSE "No functions found in the code"

\* the response is ok and carries the graph data
AnalyzeResponse(data) ==
    /\ origin = "custom"
    /\ tabLoading
    /\ tabData' = data
    /\ IF Len(data.nodes) = 0
       THEN /\ tabError' = NoFunctionsMessage(data)
            /\ cfg' = cfg
       ELSE /\ cfg' = data
            /\ tabError' = tabError
    /\ tabLoading' = FALSE
    /\ UNCHANGED <<origin, viewer, mounted, filterMode, searchTerm,
                   selectedNodeId, error, stats, network, bfsVars, appVars>>

\* first render of a viewer, then its effect runs
Mount ==
    /\ cfg # NoGraph
    /\ ~mounted
    /\ mounted' = TRUE
    /\ RunEffect(filterMode, searchTerm, selectedNodeId)
    /\ UNCHANGED <<cfg, viewer, filterMode, searchTerm, selectedNodeId,
                   tabVars, bfsVars, appVars>>

\* the controls are rendered only while no error is shown
ControlsShown == mounted /\ error = None /\ viewer # "basic"

SetFilterModeInPlace(mode) ==
    /\ ControlsShown
    /\ mode # filterMode
    /\ filterMode' = mode
    /\ cfg' = [cfg EXCEPT !.nodes = FilterByMode(cfg.nodes, mode)]
    /\ RunEffect(mode, searchTerm, selectedNodeId)
    /\ UNCHANGED <<viewer, mounted, searchTerm, selectedNodeId,
                   tabVars, bfsVars, appVars>>

\* one of the three filter buttons
SetFilterMode(mode) ==
    /\ ControlsShown
    /\ mode # filterMode
    /\ filterMode' = mode
    /\ RunEffect(mode, searchTerm, selectedNodeId)
    /\ UNCHANGED <<cfg, viewer, mounted, searchTerm, selectedNodeId,
                   tabVars, bfsVars, appVars>>

\* typing into the search box, or its Clear button
SetSearchTerm(term) ==
    /\ ControlsShown
    /\ term # searchTerm
    /\ searchTerm' = term
    /\ RunEffect(filterMode, term, selectedNodeId)
    /\ UNCHANGED <<cfg, viewer, mounted, filterMode, selectedNodeId,
                   tabVars, bfsVars, appVars>>

\* the network's click handler on a displayed node: toggles the selection
ClickNode(id) ==
    /\ ControlsShown
    /\ viewer = "standalone"
    /\ network # NoNetwork
    /\ id \in IdsOf(network.nodes)
    /\ LET sel == IF selectedNodeId = id THEN None ELSE id
       IN  /\ selectedNodeId' = sel
           /\ RunEffect(filterMode, searchTerm, sel)
    /\ UNCHANGED <<cfg, viewer, mounted, filterMode, searchTerm,
                   tabVars, bfsVars, appVars>>

\* a click on empty space, or the Clear Selection button
ClearSelection ==
    /\ ControlsShown
    /\ viewer = "standalone"
    /\ selectedNodeId # None
    /\ selectedNodeId' = None
    /\ RunEffect(filterMode, searchTerm, None)
    /\ UNCHANGED <<cfg, viewer, mounted, filterMode, searchTerm,
                   tabVars, bfsVars, appVars>>

NextViewer ==
    \/ Mount
    \/ \E mode \in FilterModes : SetFilterMode(mode)
    \/ \E term \in SearchTerms : SetSearchTerm(term)
    \/ \E id \in NodeIds : ClickNode(id)
    \/ ClearSelection
    \/ HandleAnalyze
    \/ AnalyzeFailed
    \/ tabLoading /\ \E data \in Graphs : AnalyzeResponse(data)

SpecViewer == InitViewer /\ [][NextViewer]_vars

-----------------------------------------------------------------------------
(* Claims about the viewer *)

DisplayedIds == IF network = NoNetwork THEN {} ELSE IdsOf(network.nodes)

DisplayedEdges == IF network = NoNetwork THEN <<>> ELSE network.edges

\* a mounted viewer that has the filter buttons and the search box
HasFilter == mounted /\ viewer \in {"standalone", "inline"}

NodeOf(id) == CHOOSE n \in {cfg.nodes[i] : i \in 1..Len(cfg.nodes)} : n.id = id

PassesMode(n, mode) ==
    \/ mode = "all"
    \/ mode = "connected" /\ n.connected
    \/ mode = "public" /\ ~n.is_private

IdsPassing(mode) ==
    {id \in IdsOf(cfg.nodes) : PassesMode(NodeOf(id), mode)}

EdgesWithin(ids) ==
    SelectSeq(cfg.edges, LAMBDA e : e.from \in ids /\ e.to \in ids)

\* C2: with an empty search term the viewer displays, in mode all, every
\* node; in mode connected, exactly the nodes flagged connected; in mode
\* public, exactly the nodes not flagged private; and the displayed edges
\* are exactly the edges of the graph between displayed nodes.
C2_FilterDisplaysSubset ==
    (HasFilter /\ searchTerm = <<>>) =>
        /\ DisplayedIds = IdsPassing(filterMode)
        /\ DisplayedEdges = EdgesWithin(DisplayedIds)

\* a filter that shows some nodes, hides others and drops an edge
C2_Witness ==
    /\ HasFilter
    /\ searchTerm = <<>>
    /\ filterMode # "all"
    /\ DisplayedIds # {}
    /\ DisplayedIds # IdsOf(cfg.nodes)
    /\ Len(DisplayedEdges) > 0
    /\ Len(DisplayedEdges) < Len(cfg.edges)

IsExternalId(id) == NodeOf(id).external

\* C3: after Filter in mode connected or public the stats of the view are
\* those of the displayed subset: total_functions = displayed nodes minus
\* displayed external nodes, and isolated = total - connected.
C3_StatsOfSubset ==
    (HasFilter /\ filterMode # "all" /\ network # NoNetwork) =>
        /\ stats.total_functions =
              Cardinality(DisplayedIds)
                - Cardinality({id \in DisplayedIds : IsExternalId(id)})
        /\ stats.isolated_functions =
              stats.total_functions - stats.connected_functions

\* the field, case ignored, contains the term, case ignored
ContainsIgnoringCase(field, term) ==
    /\ field # None
    /\ \E k \in 0..(Len(field) - Len(term)) :
          \A i \in 1..Len(term) : LowerChar(field[k + i]) = LowerChar(term[i])

MatchingIds(term) ==
    {id \in IdsOf(cfg.nodes) :
        \/ ContainsIgnoringCase(LabelOf(id), term)
        \/ ContainsIgnoringCase(FileOf(id), term)}

\* the matches and all their transitive callers
LineageOfMatches(term) ==
    MatchingIds(term)
      \cup UNION {TransitiveCallers(cfg.edges, id) : id \in MatchingIds(term)}

\* C4 as stated: with a search term the stand-alone viewer displays every
\* match and the whole lineage of every match, whichever mode is active.
C4_SearchShowsLineageInEveryMode ==
    (mounted /\ viewer = "standalone" /\ searchTerm # <<>>) =>
        (LineageOfMatches(searchTerm) \cap IdsOf(cfg.nodes)) \subseteq DisplayedIds

\* C4 amended: with a search term the stand-alone viewer displays exactly
\* the nodes that pass the active filter mode and are a match or a
\* transitive caller of a match (so, in mode all, every match with its whole
\* lineage); the viewer inlined in the CFG tab displays exactly the matches
\* that pass the filter mode.
C4_SearchShowsLineageWithinMode ==
    (HasFilter /\ searchTerm # <<>>) =>
        DisplayedIds =
            IdsPassing(filterMode)
              \cap (IF viewer = "standalone"
                    THEN LineageOfMatches(searchTerm)
                    ELSE MatchingIds(searchTerm))

\* a search whose match is found by ignoring case, shown with a caller that
\* does not match itself, while another caller is hidden by the mode
C4_Witness ==
    /\ mounted
    /\ viewer = "standalone"
    /\ searchTerm = <<"L">>
    /\ filterMode # "all"
    /\ \E id \in DisplayedIds : id \notin MatchingIds(searchTerm)
    /\ \E id \in LineageOfMatches(searchTerm) \cap IdsOf(cfg.nodes) :
          id \notin DisplayedIds

\* C5: no filter-mode change, search-term change or selection modifies the
\* viewer's graph, and what is drawn is taken from that graph.
C5_GraphReadOnly ==
    [][(mounted /\ mounted') =>
          /\ cfg' = cfg
          /\ network' # NoNetwork =>
                /\ IdsOf(network'.nodes) \subseteq IdsOf(cfg.nodes)
                /\ \A i \in 1..Len(network'.edges) :
                      \E j \in 1..Len(cfg.edges) :
                          network'.edges[i] = cfg.edges[j]]_vars

\* a view narrowed by mode, search and selection over the full graph
C5_Witness ==
    /\ origin = "project"
    /\ mounted
    /\ filterMode # "all"
    /\ searchTerm # <<>>
    /\ selectedNodeId # None
    /\ network # NoNetwork
    /\ Len(network.nodes) < Len(cfg.nodes)
    /\ Len(network.edges) < Len(cfg.edges)

\* C6: every edge handed to the renderer has both endpoints among the
\* displayed nodes, whatever the graph, mode, search term and selection.
C6_NoDanglingEdges ==
    network # NoNetwork =>
        \A i \in 1..Len(network.edges) :
            /\ network.edges[i].from \in IdsOf(network.nodes)
            /\ network.edges[i].to \in IdsOf(network.nodes)

\* a drawn view of a graph with an edge to a missing node and an edge to a
\* node that the filters hide
C6_Witness ==
    /\ network # NoNetwork
    /\ \E i \in 1..Len(cfg.edges) :
          {cfg.edges[i].from, cfg.edges[i].to} \subseteq IdsOf(cfg.nodes)
          /\ ~({cfg.edges[i].from, cfg.edges[i].to} \subseteq DisplayedIds)
    /\ \E i \in 1..Len(cfg.edges) :
          ~({cfg.edges[i].from, cfg.edges[i].to} \subseteq IdsOf(cfg.nodes))

\* C7: a graph with zero nodes is a successful empty result: the viewer
\* given it shows no error, and the analysis that received it sets none.
C7_EmptyGraphIsSuccess ==
    /\ (mounted /\ Len(cfg.nodes) = 0) => error = None
    /\ (tabData # NoGraph /\ Len(tabData.nodes) = 0) => tabError = None

(***************************************************************************)
(* The main page: local preprocessing, the background AWS job, its status  *)
(* box, and what survives a reload.                                        *)
(***************************************************************************)

\* most status responses on their way when the interval fires again
MaxInFlight == 2

Terminal == {"COMPLETED", "FAILED"}

\* awsJobStatus?.status
StatusOf(js) == IF js = NoJobStatus THEN None ELSE js.status

\* JSON.stringify of a job status: the defined fields, in order
JobStatusFields == <<"job_id", "status", "files">>

RECURSIVE StringifyFrom(_, _)
StringifyFrom(js, i) ==
    IF i > Len(JobStatusFields) THEN <<>>
    ELSE LET k == JobStatusFields[i]
         IN  IF js[k] = None THEN StringifyFrom(js, i + 1)
             ELSE <<<<k, js[k]>>>> \o StringifyFrom(js, i + 1)

stringify(js) == StringifyFrom(js, 1)

\* JSON.parse of a stored job status: a missing field reads as undefined
Field(text, k) ==
    IF \E i \in 1..Len(text) : text[i][1] = k
    THEN LET i == CHOOSE n \in 1..Len(text) : text[n][1] = k
         IN  text[i][2]
    ELSE None

parse(text) ==
    [job_id |-> Field(text, "job_id"), status |-> Field(text, "status"),
     files |-> Field(text, "files")]

BoolString(b) == IF b THEN "true" ELSE "false"

\* JSON.stringify and JSON.parse of the preprocessing results
ResultsJson(res) == <<"json", res>>

ResultsOf(text) == text[2]

setItem(ls, k, v) ==
    [x \in DOMAIN ls \cup {k} |-> IF x = k THEN v ELSE ls[x]]

removeItem(ls, k) == [x \in DOMAIN ls \ {k} |-> ls[x]]

Has(ls, k) == k \in DOMAIN ls

\* the save effects, in the order they are declared; each runs after a
\* render in which the state it depends on has changed
SaveUploadType(ls, old, new) ==
    IF new.uploadType # old.uploadType
    THEN setItem(ls, "uploadType", new.uploadType)
    ELSE ls

SaveRepoUrl(ls, old, new) ==
    IF new.repoUrl # old.repoUrl /\ new.repoUrl # ""
    THEN setItem(ls, "repoUrl", new.repoUrl)
    ELSE ls

SaveResults(ls, old, new) ==
    IF new.results # old.results /\ new.results # None
    THEN setItem(ls, "results", ResultsJson(new.results))
    ELSE ls

SaveAwsJobId(ls, old, new) ==
    IF new.awsJobId = old.awsJobId THEN ls
    ELSE IF new.awsJobId # None THEN setItem(ls, "awsJobId", new.awsJobId)
    ELSE removeItem(ls, "awsJobId")

SaveAwsJobStatusOnce(ls, old, new) ==
    IF new.awsJobStatus = old.awsJobStatus THEN ls
    ELSE IF new.awsJobStatus = NoJobStatus
    THEN removeItem(ls, "awsJobStatus")
    ELSE IF old.awsJobStatus = NoJobStatus
    THEN setItem(ls, "awsJobStatus", stringify(new.awsJobStatus))
    ELSE ls

SaveAwsJobStatus(ls, old, new) ==
    IF new.awsJobStatus = old.awsJobStatus THEN ls
    ELSE IF new.awsJobStatus # NoJobStatus
    THEN setItem(ls, "awsJobStatus", stringify(new.awsJobStatus))
    ELSE removeItem(ls, "awsJobStatus")

SaveMinimized(ls, old, new) ==
    IF new.minimized # old.minimized
    THEN setItem(ls, "statusBoxMinimized", BoolString(new.minimized))
    ELSE ls

SaveEffects(ls, old, new) ==
    SaveMinimized(
      SaveAwsJobStatus(
        SaveAwsJobId(
          SaveResults(
            SaveRepoUrl(SaveUploadType(ls, old, new), old, new),
            old, new),
          old, new),
        old, new),
      old, new)

\* the state the save effects read
Saveable(ut, url, res, id, js, mini) ==
    [uploadType |-> ut, repoUrl |-> url, results |-> res, awsJobId |-> id,
     awsJobStatus |-> js, minimized |-> mini]

Current ==
    Saveable(uploadType, repoUrl, results, awsJobId, awsJobStatus,
             isStatusBoxMinimized)

Initial == Saveable("zip", "", None, None, NoJobStatus, FALSE)

\* the save effects on mount: all of them run, with the initial state
MountSave(ls) ==
    setItem(
      removeItem(removeItem(setItem(ls, "uploadType", "zip"), "awsJobId"),
                 "awsJobStatus"),
      "statusBoxMinimized", "false")

Save(new) == localStorage' = SaveEffects(localStorage, Current, new)

\* what the backend answers to a status request for job j, or a failure
StatusAnswers(j) ==
    {[job |-> j, status |-> serverStatus[j]], [job |-> j, status |-> "error"]}

\* a failed request changes nothing when its answer arrives, so only the
\* answers that will be read are kept on their way
Arriving(inFlight, r) ==
    IF r.status = "error" THEN inFlight ELSE inFlight \cup {r}

\* the polling effect: it runs again when the tracked id or the status
\* changes, and polls at once unless nothing is tracked or the status is
\* terminal
PollingEffect(oldId, oldStatus, id, status, inFlight) ==
    IF (id # oldId \/ status # oldStatus) /\ id # None
          /\ status \notin Terminal
    THEN \E r \in StatusAnswers(id) : statusResps' = Arriving(inFlight, r)
    ELSE statusResps' = inFlight

InitApp ==
    /\ AppFresh
    /\ localStorage = MountSave(EmptyStorage)
    /\ ViewerIdle
    /\ LineageIdle

SetUploadType(t) ==
    /\ t # uploadType
    /\ uploadType' = t
    /\ Save([Current EXCEPT !.uploadType = t])
    /\ UNCHANGED <<file, repoUrl, loading, results, pageError, jobVars,
                   netVars, bfsVars, viewVars>>

handleFileChange(isZip) ==
    /\ uploadType = "zip"
    /\ file' = isZip
    /\ pageError' = IF isZip THEN None ELSE "Please select a .zip file"
    /\ UNCHANGED <<uploadType, repoUrl, loading, results, jobVars,
                   localStorage, netVars, bfsVars, viewVars>>

SetRepoUrl(url) ==
    /\ uploadType = "github"
    /\ url # repoUrl
    /\ repoUrl' = url
    /\ Save([Current EXCEPT !.repoUrl = url])
    /\ UNCHANGED <<uploadType, file, loading, results, pageError, jobVars,
                   netVars, bfsVars, viewVars>>

\* what the submission's callbacks do with a response: a failure is logged
\* and nothing else
SubmitShown(j) ==
    /\ pageError' = "AWS job submission failed"
    /\ loading' = FALSE
    /\ UNCHANGED <<results, jobVars, localStorage, statusResps>>

SubmitIgnored(j) ==
    UNCHANGED <<results, pageError, loading, jobVars, localStorage,
                statusResps>>

SubmitTracked(j) ==
    LET js == [job_id |-> j, status |-> "SUBMITTED", files |-> None]
    IN  /\ awsJobId' = j
        /\ awsJobStatus' = js
        /\ showStatusBox' = TRUE
        /\ Save([Current EXCEPT !.awsJobId = j, !.awsJobStatus = js])
        /\ PollingEffect(awsJobId, StatusOf(awsJobStatus), j, "SUBMITTED",
                         statusResps)
        /\ UNCHANGED <<results, pageError, loading, isStatusBoxMinimized>>

SubmitsAlways == TRUE

\* the else branch of `if (uploadType === 'zip')`: only a GitHub URL is
\* also submitted to AWS
SubmitsToAws == uploadType = "github"

handlePreprocess ==
    /\ ~loading
    /\ results' = None
    /\ IF uploadType = "zip" /\ ~file
       THEN /\ pageError' = "Please select a .zip file"
            /\ UNCHANGED <<loading, netVars>>
       ELSE IF uploadType = "github" /\ repoUrl = ""
       THEN /\ pageError' = "Please enter a GitHub repository URL"
            /\ UNCHANGED <<loading, netVars>>
       ELSE /\ pageError' = None
            /\ loading' = TRUE
            /\ preprocessReq' = "sent"
            /\ IF SubmitsToAws
               THEN /\ submissions < MaxJobs
                    /\ submissions' = submissions + 1
                    /\ submitReqs' =
                          submitReqs \cup {JobNames[submissions + 1]}
                    /\ serverStatus' =
                          [serverStatus EXCEPT
                              ![JobNames[submissions + 1]] = "PROCESSING"]
               ELSE UNCHANGED <<submissions, submitReqs, serverStatus>>
            /\ UNCHANGED <<statusResps, resultResps>>
    /\ UNCHANGED <<uploadType, file, repoUrl, jobVars, localStorage,
                   bfsVars, viewVars>>

\* the answer to /preprocess arrives
PreprocessResponse(ok) ==
    /\ preprocessReq = "sent"
    /\ preprocessReq' = None
    /\ IF ok
       THEN /\ results' = "report"
            /\ UNCHANGED pageError
       ELSE /\ pageError' = "Preprocessing failed"
            /\ UNCHANGED results
    /\ loading' = FALSE
    /\ Save([Current EXCEPT !.results = results'])
    /\ UNCHANGED <<uploadType, file, repoUrl, jobVars, submissions,
                   serverStatus, submitReqs, statusResps, resultResps,
                   bfsVars, viewVars>>

\* the answer to /submit-aws-job arrives
SubmitResponse(j, ok) ==
    /\ j \in submitReqs
    /\ submitReqs' = submitReqs \ {j}
    /\ IF ok THEN SubmitTracked(j) ELSE SubmitIgnored(j)
    /\ UNCHANGED <<uploadType, file, repoUrl, submissions, serverStatus,
                   preprocessReq, resultResps, bfsVars, viewVars>>

\* the polling interval fires
IntervalTick ==
    /\ awsJobId # None
    /\ StatusOf(awsJobStatus) \notin Terminal
    /\ Cardinality(statusResps) < MaxInFlight
    /\ \E r \in StatusAnswers(awsJobId) :
          statusResps' = Arriving(statusResps, r)
    /\ UNCHANGED <<localVars, jobVars, localStorage, submissions,
                   serverStatus, preprocessReq, submitReqs, resultResps,
                   bfsVars, viewVars>>

\* the answer to a status request arrives in pollStatus
StatusResponse(r) ==
    /\ r \in statusResps
    /\ IF r.status = "error"
       THEN /\ statusResps' = statusResps \ {r}
            /\ UNCHANGED <<awsJobStatus, localStorage, resultResps>>
       ELSE LET js == [job_id |-> r.job, status |-> r.status, files |-> None]
            IN  /\ awsJobStatus' = js
                /\ Save([Current EXCEPT !.awsJobStatus = js])
                /\ PollingEffect(awsJobId, StatusOf(awsJobStatus), awsJobId,
                                 r.status, statusResps \ {r})
                /\ IF r.status = "COMPLETED"
                   THEN \E got \in BOOLEAN :
                           resultResps' =
                              IF got THEN resultResps \cup {[job |-> r.job, ok |-> got]}
                              ELSE resultResps
                   ELSE UNCHANGED resultResps
    /\ UNCHANGED <<localVars, awsJobId, showStatusBox, isStatusBoxMinimized,
                   submissions, serverStatus, preprocessReq, submitReqs,
                   bfsVars, viewVars>>

\* { ...prev, files }
WithFiles(prev) ==
    IF prev = NoJobStatus
    THEN [job_id |-> None, status |-> None, files |-> "files"]
    ELSE [prev EXCEPT !.files = "files"]

\* the answer to the result request arrives in pollStatus
ResultResponse(r) ==
    /\ r \in resultResps
    /\ resultResps' = resultResps \ {r}
    /\ IF r.ok
       THEN /\ awsJobStatus' = WithFiles(awsJobStatus)
            /\ Save([Current EXCEPT !.awsJobStatus = awsJobStatus'])
            /\ PollingEffect(awsJobId, StatusOf(awsJobStatus), awsJobId,
                             StatusOf(awsJobStatus'), statusResps)
       ELSE UNCHANGED <<awsJobStatus, localStorage, statusResps>>
    /\ UNCHANGED <<localVars, awsJobId, showStatusBox, isStatusBoxMinimized,
                   submissions, serverStatus, preprocessReq, submitReqs,
                   bfsVars, viewVars>>

\* the backend finishes a job
ServerProgress(j, outcome) ==
    /\ serverStatus[j] = "PROCESSING"
    /\ serverStatus' = [serverStatus EXCEPT ![j] = outcome]
    /\ UNCHANGED <<localVars, jobVars, localStorage, submissions,
                   preprocessReq, submitReqs, statusResps, resultResps,
                   bfsVars, viewVars>>

StatusBoxShown == showStatusBox /\ awsJobStatus # NoJobStatus

handleCloseStatusBox ==
    /\ StatusBoxShown
    /\ showStatusBox' = FALSE
    /\ isStatusBoxMinimized' = TRUE
    /\ Save([Current EXCEPT !.minimized = TRUE])
    /\ UNCHANGED <<localVars, awsJobId, awsJobStatus, netVars, bfsVars,
                   viewVars>>

handleReopenStatusBox ==
    /\ isStatusBoxMinimized
    /\ awsJobId # None
    /\ showStatusBox' = TRUE
    /\ isStatusBoxMinimized' = FALSE
    /\ Save([Current EXCEPT !.minimized = FALSE])
    /\ UNCHANGED <<localVars, awsJobId, awsJobStatus, netVars, bfsVars,
                   viewVars>>

handleDismissJob ==
    /\ StatusBoxShown
    /\ StatusOf(awsJobStatus) \in Terminal
    /\ showStatusBox' = FALSE
    /\ awsJobId' = None
    /\ awsJobStatus' = NoJobStatus
    /\ isStatusBoxMinimized' = FALSE
    /\ localStorage' =
          SaveEffects(
            removeItem(
              removeItem(removeItem(localStorage, "awsJobId"),
                         "awsJobStatus"),
              "statusBoxMinimized"),
            Current,
            [Current EXCEPT !.awsJobId = None, !.awsJobStatus = NoJobStatus,
                            !.minimized = FALSE])
    /\ UNCHANGED <<localVars, netVars, bfsVars, viewVars>>

\* what the load effect reads back from localStorage on mount
Loaded(ls) ==
    Saveable(
      IF Has(ls, "uploadType") THEN ls["uploadType"] ELSE "zip",
      IF Has(ls, "repoUrl") THEN ls["repoUrl"] ELSE "",
      IF Has(ls, "results") THEN ResultsOf(ls["results"]) ELSE None,
      IF Has(ls, "awsJobId") THEN ls["awsJobId"] ELSE None,
      IF Has(ls, "awsJobStatus") THEN parse(ls["awsJobStatus"])
      ELSE NoJobStatus,
      IF Has(ls, "statusBoxMinimized")
      THEN ls["statusBoxMinimized"] = "true"
      ELSE FALSE)

\* the user reloads the page: the component is constructed again, the load
\* effect restores what localStorage holds, the save effects run for the
\* first render and for the restored one, and the polling effect starts
Reload ==
    LET new == Loaded(localStorage)
    IN  /\ uploadType' = new.uploadType
        /\ repoUrl' = new.repoUrl
        /\ results' = new.results
        /\ awsJobId' = new.awsJobId
        /\ awsJobStatus' = new.awsJobStatus
        /\ isStatusBoxMinimized' = new.minimized
        /\ showStatusBox' = Has(localStorage, "awsJobId")
        /\ file' = FALSE
        /\ loading' = FALSE
        /\ pageError' = None
        /\ localStorage' = SaveEffects(MountSave(localStorage), Initial, new)
        /\ preprocessReq' = None
        /\ submitReqs' = {}
        /\ resultResps' = {}
        /\ PollingEffect(None, None, new.awsJobId,
                         StatusOf(new.awsJobStatus), {})
        /\ UNCHANGED <<submissions, serverStatus, bfsVars, viewVars>>

NextApp ==
    \/ \E t \in {"zip", "github"} : SetUploadType(t)
    \/ \E isZip \in BOOLEAN : handleFileChange(isZip)
    \/ \E url \in {"", "repo"} : SetRepoUrl(url)
    \/ handlePreprocess
    \/ \E ok \in BOOLEAN : PreprocessResponse(ok)
    \/ \E j \in JobIds, ok \in BOOLEAN : SubmitResponse(j, ok)
    \/ IntervalTick
    \/ \E r \in statusResps : StatusResponse(r)
    \/ \E r \in resultResps : ResultResponse(r)
    \/ \E j \in JobIds, outcome \in Terminal : ServerProgress(j, outcome)
    \/ handleCloseStatusBox
    \/ handleReopenStatusBox
    \/ handleDismissJob
    \/ Reload

SpecApp == InitApp /\ [][NextApp]_vars

(***************************************************************************)
(* Claims about the main page.                                             *)
(***************************************************************************)

JobTracking == <<awsJobId, awsJobStatus, showStatusBox>>

LocalOutcome == <<results, pageError, loading>>

PreprocessOutcome(ok) ==
    /\ loading' = FALSE
    /\ results' = IF ok THEN "report" ELSE results
    /\ pageError' = IF ok THEN pageError ELSE "Preprocessing failed"

SubmitOutcome(j, ok) ==
    IF ok
    THEN /\ awsJobId' = j
         /\ awsJobStatus' =
               [job_id |-> j, status |-> "SUBMITTED", files |-> None]
         /\ showStatusBox' = TRUE
    ELSE UNCHANGED JobTracking

\* C9: for a GitHub submission, whichever of the two responses arrives and
\* whether it reports success or failure, the step that handles the
\* /preprocess response sets results, error and loading from that response
\* alone and leaves the job tracking (awsJobId, awsJobStatus, showStatusBox)
\* as it was, and the step that handles the /submit-aws-job response sets
\* the job tracking from that response alone and leaves results, error and
\* loading as they were.
C9_ResponsesIndependent ==
    [][/\ \A ok \in BOOLEAN :
             PreprocessResponse(ok) =>
                PreprocessOutcome(ok) /\ UNCHANGED JobTracking
       /\ \A j \in JobIds, ok \in BOOLEAN :
             SubmitResponse(j, ok) =>
                SubmitOutcome(j, ok) /\ UNCHANGED LocalOutcome]_vars

\* a GitHub run whose submission was answered first and accepted, and whose
\* preprocessing then failed: the job is tracked, the page shows the
\* preprocessing error
C9_Witness ==
    /\ uploadType = "github"
    /\ submissions = 1
    /\ submitReqs = {}
    /\ preprocessReq = None
    /\ ~loading
    /\ pageError = "Preprocessing failed"
    /\ awsJobId = JobNames[1]
    /\ showStatusBox
    /\ ~Has(localStorage, "results")

TrackedCompletedWithoutFiles ==
    /\ awsJobId # None
    /\ awsJobStatus # NoJobStatus
    /\ awsJobStatus.job_id = awsJobId
    /\ awsJobStatus.status = "COMPLETED"
    /\ awsJobStatus.files = None

\* C10: whenever the tracked job is recorded as COMPLETED and its files are
\* not attached yet, an answer that leads to the files is still on its way:
\* a result answer for the job, or a status answer for it after which the
\* result is asked for again.
C10_CompletedGetsFiles ==
    TrackedCompletedWithoutFiles =>
       \/ \E r \in resultResps : r.job = awsJobId
       \/ \E r \in statusResps : r.job = awsJobId

\* C11: a reload of the page while a job is tracked restores the tracked
\* job id and the recorded job status to the values held just before the
\* reload, and the status box of that job is shown again.
C11_ReloadRestoresJob ==
    [][(Reload /\ awsJobId # None) =>
          /\ awsJobId' = awsJobId
          /\ awsJobStatus' = awsJobStatus
          /\ showStatusBox'
          /\ awsJobStatus' # NoJobStatus]_vars

\* the page after a reload that followed a status update and a minimize:
\* with one submission only a reload shows the box while it is still
\* marked minimized
C11_Witness ==
    /\ submissions = 1
    /\ awsJobId = JobNames[1]
    /\ StatusOf(awsJobStatus) = "PROCESSING"
    /\ showStatusBox
    /\ isStatusBoxMinimized
    /\ Has(localStorage, "awsJobId")

\* the status requests a step starts
StartedStatusRequests == statusResps' \ statusResps

RecordedTerminalFor(j) ==
    /\ awsJobStatus # NoJobStatus
    /\ awsJobStatus.job_id = j
    /\ awsJobStatus.status \in Terminal

\* C12: a step starts a status request for a job only if, when the request
\* is started, that job is tracked and the recorded status is neither
\* COMPLETED nor FAILED, and only if no terminal status of that job was
\* recorded when the step began: once a terminal status is recorded no new
\* status request is started for the job.
C12_PollsOnlyBeforeTerminal ==
    [][\A r \in StartedStatusRequests :
          /\ awsJobId' = r.job
          /\ StatusOf(awsJobStatus') \notin Terminal
          /\ ~RecordedTerminalFor(r.job)]_vars

\* the job entries of localStorage
JobEntries(ls) ==
    [k \in DOMAIN ls \cap {"awsJobId", "awsJobStatus", "statusBoxMinimized"}
        |-> ls[k]]

NoJobEffect ==
    /\ submitReqs' = submitReqs
    /\ submissions' = submissions
    /\ UNCHANGED JobTracking
    /\ JobEntries(localStorage') = JobEntries(localStorage)

\* C13: a .zip submission sends no AWS job submission, and neither the
\* submission step nor the step that handles its /preprocess response
\* changes awsJobId, awsJobStatus, showStatusBox or the job entries of
\* localStorage.
C13_ZipLeavesJobAlone ==
    [][/\ (handlePreprocess /\ uploadType = "zip") => NoJobEffect
       /\ (\E ok \in BOOLEAN : PreprocessResponse(ok)) => NoJobEffect]_vars

\* a job is tracked, one run has stored its results and another run is
\* waiting for /preprocess; there was one AWS submission only, so one of the
\* two runs was a .zip submission
C13_Witness ==
    /\ uploadType = "zip"
    /\ file
    /\ loading
    /\ Has(localStorage, "results")
    /\ submissions = 1
    /\ submitReqs = {}
    /\ awsJobId = JobNames[1]
    /\ Has(localStorage, "awsJobStatus")

NoMatchShown == mounted /\ error = "No functions match the current filters"

\* C14: whenever the viewer shows 'No functions match the current filters'
\* the user can still change the filter mode or the search term inside the
\* viewer, so the error is never permanent for a viewer that holds a
\* non-empty graph.
C14_NoMatchIsRecoverable ==
    NoMatchShown =>
        ENABLED (\/ \E mode \in FilterModes : SetFilterMode(mode)
                 \/ \E term \in SearchTerms : SetSearchTerm(term))

\* C15: once the recorded status of the tracked job is COMPLETED or FAILED,
\* no step that keeps the job tracked records a non-terminal status.
C15_TerminalNeverReverts ==
    [][(awsJobId # None /\ RecordedTerminalFor(awsJobId)
          /\ awsJobId' = awsJobId) =>
          StatusOf(awsJobStatus') \in Terminal]_vars

\* a job status that names a job or carries a status
NamesJob(js) ==
    js # NoJobStatus /\ (js.job_id # None \/ js.status # None)

\* no job id and no job status, in the component state or in localStorage
JobAbsent ==
    /\ awsJobId = None
    /\ ~NamesJob(awsJobStatus)
    /\ ~Has(localStorage, "awsJobId")
    /\ Has(localStorage, "awsJobStatus") =>
          ~NamesJob(parse(localStorage["awsJobStatus"]))

\* C16: once a job is dismissed its id and status are absent from the
\* component state and from localStorage, and they stay absent, whatever
\* status or result answers arrive, for as long as no newly submitted job is
\* tracked.
C16_DismissedStaysAbsent ==
    [][(JobAbsent /\ awsJobId' = None) => JobAbsent']_vars

\* C17: the recorded job status belongs to the tracked job: whenever a job
\* is tracked and a status is recorded, the status carries the tracked job's
\* id, under every interleaving of submissions and answers.
C17_StatusBelongsToTrackedJob ==
    (awsJobId # None /\ awsJobStatus # NoJobStatus) =>
        awsJobStatus.job_id = awsJobId

\* the Lineage set of the selected node: the node and its transitive callers
LineageOfSelected == {selectedNodeId} \cup TransitiveCallers(cfg.edges, selectedNodeId)

SelectionStyled ==
    (viewer = "standalone" /\ selectedNodeId # None /\ network # NoNetwork) =>
        \A i \in 1..Len(network.nodes) :
            LET n == network.nodes[i]
            IN  /\ n.isHighlighted <=> n.id \in LineageOfSelected
                /\ n.isDimmed <=> n.id \notin LineageOfSelected
                /\ ~(n.isHighlighted /\ n.isDimmed)

\* C18: a step that selects or deselects a node of a mounted viewer leaves
\* the displayed nodes and edges as they were, and after every step, while a
\* node is selected, each displayed node is highlighted if it is in the
\* Lineage set of the selected node and dimmed otherwise, never both.
C18_SelectionOnlyStyles ==
    [][/\ (mounted /\ mounted' /\ selectedNodeId' # selectedNodeId) =>
             /\ DisplayedIds' = DisplayedIds
             /\ DisplayedEdges' = DisplayedEdges
       /\ mounted' => SelectionStyled']_vars

\* a selected node drawn with a highlighted caller, a dimmed node that is
\* no caller of it, and at least one edge
C18_Witness ==
    /\ viewer = "standalone"
    /\ mounted
    /\ selectedNodeId # None
    /\ network # NoNetwork
    /\ \E i, j, k \in 1..Len(network.nodes) :
          /\ network.nodes[i].id = selectedNodeId
          /\ network.nodes[j].id # selectedNodeId
          /\ network.nodes[j].isHighlighted
          /\ network.nodes[k].isDimmed
    /\ Len(network.edges) > 0

IsEndpoint(id) ==
    \E i \in 1..Len(cfg.edges) : cfg.edges[i].from = id \/ cfg.edges[i].to = id

\* the data-model rule: connected is true exactly for the endpoints of edges
ConnectedFlagsConsistent ==
    \A i \in 1..Len(cfg.nodes) :
        cfg.nodes[i].connected <=> IsEndpoint(cfg.nodes[i].id)

\* every edge runs between nodes of the graph
EdgesBetweenNodes ==
    \A i \in 1..Len(cfg.edges) :
        {cfg.edges[i].from, cfg.edges[i].to} \subseteq IdsOf(cfg.nodes)

ConnectedOnlyView ==
    HasFilter /\ filterMode = "connected" /\ searchTerm = <<>>

ConnectedViewComplete ==
    /\ \A id \in DisplayedIds :
          \E i \in 1..Len(DisplayedEdges) :
              DisplayedEdges[i].from = id \/ DisplayedEdges[i].to = id
    /\ DisplayedEdges = cfg.edges

\* C19 as stated: if connected is true exactly for the endpoints of edges,
\* then in connected-only mode with an empty search term every displayed
\* node has a displayed edge and every edge of the graph is displayed.
C19_ConnectedOnlyComplete ==
    (ConnectedOnlyView /\ ConnectedFlagsConsistent) => ConnectedViewComplete

\* C19 amended: if connected is true exactly for the endpoints of edges and
\* both endpoints of every edge are nodes of the graph, then in
\* connected-only mode with an empty search term every displayed node has a
\* displayed edge and every edge of the graph is displayed.
C19_ConnectedOnlyCompleteWithoutDangling ==
    (ConnectedOnlyView /\ ConnectedFlagsConsistent /\ EdgesBetweenNodes) =>
        ConnectedViewComplete

\* a consistent graph with an edge and an isolated node, in connected-only
\* mode: the isolated node is hidden, the edge and its endpoints are drawn
C19_Witness ==
    /\ ConnectedOnlyView
    /\ ConnectedFlagsConsistent
    /\ EdgesBetweenNodes
    /\ Len(cfg.edges) > 0
    /\ network # NoNetwork
    /\ Len(network.nodes) < Len(cfg.nodes)
    /\ Len(network.edges) = Len(cfg.edges)

====
